---- MODULE Spec2Model ----
(***************************************************************************)
(* Model of src/app.py: the Streamlit page that loads an uploaded table,   *)
(* writes it to a temporary CSV, asks LIDA for a chart in at most two      *)
(* attempts (run_lida / run_lida_once), decodes the raster (decode_raster) *)
(* and displays the outcome.                                               *)
(*                                                                         *)
(* Python values are records [type, val]; text and bytes values are        *)
(* sequences of code points / byte values.  Prompts are sequences of       *)
(* string chunks, so that f-string concatenation is sequence               *)
(* concatenation and str.strip() works on the chunks.                      *)
(***************************************************************************)
EXTENDS Integers, Sequences, FiniteSets, TLC

VARIABLES
    uploaded,   \* st.file_uploader value: NoFile or a file record
    prompt,     \* st.text_input value
    pc,         \* position of the script run ("idle": waiting for the user)
    fs,         \* temporary CSV paths that exist on disk
    ntmp,       \* how many temporary names tempfile has handed out
    csv_path,   \* local csv_path of the result block (0: unset)
    user_goal,  \* argument of the current run_lida_once call
    summary,    \* local summary of run_lida_once (0: unset)
    log,        \* calls made on the Manager during this script run
    ret,        \* (raster, code, attempt) returned by run_lida
    ui,         \* what this script run has put on the page
    created,    \* temporary files created by this script run
    deleted,    \* temporary files unlinked by this script run
    d_in,       \* argument of a stand-alone decode_raster call
    d_out       \* its result

vars == <<uploaded, prompt, pc, fs, ntmp, csv_path, user_goal, summary, log,
          ret, ui, created, deleted, d_in, d_out>>

-----------------------------------------------------------------------------
(* Bounds *)

MaxTmp == 2       \* temporary files created over a behaviour
MaxLen == 4       \* length of a text handed to decode_raster
MaxRows == 1      \* rows of an uploaded table

-----------------------------------------------------------------------------
(* Python values *)

None == [type |-> "NoneType", val |-> <<>>]
Bytes(b) == [type |-> "bytes", val |-> b]
Str(s) == [type |-> "str", val |-> s]
Other == [type |-> "object", val |-> <<>>]

\* code points used in texts: 'A', 'Q', '/', '=', '!'
Chr == [A |-> 65, Q |-> 81, slash |-> 47, pad |-> 61, bang |-> 33]

TextChars == {Chr.A, Chr.Q, Chr.slash, Chr.pad, Chr.bang}

\* table_a2b_base64 restricted to TextChars; 64 or more: not in the alphabet
table_a2b_base64(c) ==
    CASE c = Chr.A -> 0
      [] c = Chr.Q -> 16
      [] c = Chr.slash -> 63
      [] OTHER -> 64

RECURSIVE a2b_loop(_, _, _, _, _, _)
\* the non-strict decoding loop behind base64.b64decode(s): non-alphabet
\* characters are skipped, decoding stops at a completed pad sequence
a2b_loop(t, i, quad_pos, leftchar, pads, out) ==
    IF i > Len(t)
    THEN [ok |-> quad_pos = 0, bytes |-> out]
    ELSE LET ch == t[i]
             v == table_a2b_base64(ch)
         IN  IF ch = Chr.pad
             THEN IF quad_pos >= 2 /\ quad_pos + pads + 1 >= 4
                  THEN [ok |-> TRUE, bytes |-> out]
                  ELSE a2b_loop(t, i + 1, quad_pos, leftchar,
                                IF quad_pos >= 2 THEN pads + 1 ELSE pads, out)
             ELSE IF v >= 64
             THEN a2b_loop(t, i + 1, quad_pos, leftchar, pads, out)
             ELSE CASE quad_pos = 0 ->
                         a2b_loop(t, i + 1, 1, v, 0, out)
                    [] quad_pos = 1 ->
                         a2b_loop(t, i + 1, 2, v % 16, 0,
                                  Append(out, leftchar * 4 + v \div 16))
                    [] quad_pos = 2 ->
                         a2b_loop(t, i + 1, 3, v % 4, 0,
                                  Append(out, leftchar * 16 + v \div 4))
                    [] OTHER ->
                         a2b_loop(t, i + 1, 0, 0, 0,
                                  Append(out, leftchar * 64 + v))

\* base64.b64decode(s) for a str s: ok = FALSE stands for binascii.Error
b64decode(s) == a2b_loop(s, 1, 0, 0, 0, <<>>)

\* decode_raster(raster)
decode_raster(raster) ==
    IF raster = None THEN None
    ELSE IF raster.type = "bytes" THEN raster
    ELSE IF raster.type = "str"
         THEN LET d == b64decode(raster.val)
              IN  IF d.ok THEN Bytes(d.bytes) ELSE None
    ELSE None

-----------------------------------------------------------------------------
(* Texts, prompts, files, candidates *)

RECURSIVE TextsUpTo(_)
\* all texts over TextChars of length at most n
TextsUpTo(n) ==
    IF n = 0 THEN {<<>>}
    ELSE LET S == TextsUpTo(n - 1)
         IN  S \cup {Append(s, c) : s \in {x \in S : Len(x) = n - 1},
                                    c \in TextChars}

\* a text is well-formed base64 (RFC 4648): groups of four alphabet
\* characters, '=' only as the last one or two characters
ValidBase64(t) ==
    /\ Len(t) % 4 = 0
    /\ \A i \in 1..Len(t) :
          \/ table_a2b_base64(t[i]) < 64
          \/ /\ t[i] = Chr.pad
             /\ i >= Len(t) - 1
             /\ t[Len(t)] = Chr.pad

RECURSIVE GroupDecode(_)
\* the bytes a well-formed base64 text stands for, group by group
GroupDecode(t) ==
    IF Len(t) = 0 THEN <<>>
    ELSE LET a == table_a2b_base64(t[1])
             b == table_a2b_base64(t[2])
             c == table_a2b_base64(t[3])
             d == table_a2b_base64(t[4])
             b1 == a * 4 + b \div 16
             b2 == (b % 16) * 16 + c \div 4
             b3 == (c % 4) * 64 + d
         IN  IF t[3] = Chr.pad THEN <<b1>>
             ELSE IF t[4] = Chr.pad THEN <<b1, b2>>
             ELSE <<b1, b2, b3>> \o GroupDecode(SubSeq(t, 5, Len(t)))

IsSpace(ch) == ch \in {" ", "\t", "\n"}

RECURSIVE lstrip(_)
lstrip(s) == IF s # <<>> /\ IsSpace(Head(s)) THEN lstrip(Tail(s)) ELSE s

RECURSIVE rstrip(_)
rstrip(s) ==
    IF s # <<>> /\ IsSpace(s[Len(s)]) THEN rstrip(SubSeq(s, 1, Len(s) - 1))
    ELSE s

\* str.strip()
strip(s) == rstrip(lstrip(s))

\* what the user can type into the question box
Prompts == {<<>>, <<" ">>, <<"q">>, <<" ", "q", " ">>}

NoFile == [name |-> "", parses |-> FALSE, rows |-> 0]

\* uploaded files: extension, whether pandas can parse it, rows it holds
Files ==
    {[name |-> n, parses |-> p, rows |-> r] :
        n \in {"csv", "xlsx"}, p \in BOOLEAN, r \in 0..MaxRows}
    \ {[name |-> n, parses |-> FALSE, rows |-> r] :
        n \in {"csv", "xlsx"}, r \in 1..MaxRows}

\* payloads a candidate's raster attribute can hold
Rasters ==
    { None,
      Bytes(<<137, 80>>),
      Str(<<Chr.Q, Chr.Q, Chr.pad, Chr.pad>>),
      Str(<<Chr.Q>>),
      Str(<<Chr.bang>>),
      Other }

Codes == {"", "plt.bar()"}

Candidates == {[raster |-> r, code |-> c] : r \in Rasters, c \in Codes}

\* later candidates of a result list (never looked at by run_lida_once)
LaterCandidates ==
    { [raster |-> Bytes(<<137, 80>>), code |-> "plt.plot()"],
      [raster |-> None, code |-> "plt.plot()"] }

\* the lists manager.visualize can return
ChartLists ==
    {<<>>} \cup {<<c>> : c \in Candidates}
           \cup {<<c, d>> : c \in Candidates, d \in LaterCandidates}

\* goal["visualization"], goal["rationale"], library of run_lida_once
GoalVisualization ==
    "Generate one Matplotlib visualization that answers the question. If needed, transform data (filter, groupby, aggregation, resample weekly/monthly/quarterly)."
GoalRationale == "Briefly justify the chart and any transformations."
Library == "matplotlib"

\* the text run_lida appends to the prompt for the second attempt
GuidanceSuffix ==
    <<". Perform any required transformations first, then render a single clear Matplotlib chart.">>

\* variant: the second attempt repeats the question as it is
guided_plain(p) == p

guided(p) == p \o GuidanceSuffix

-----------------------------------------------------------------------------
(* The page *)

EmptyUI ==
    [preview |-> FALSE, image |-> None, caption |-> "", code |-> "",
     success |-> FALSE, error |-> <<>>]

MsgFileEmpty == <<"File is empty. Try a different dataset.">>
MsgNoImage ==
    <<"Couldn't generate an image. Try a clearer question or a dataset with numeric columns.">>
MsgError(e) == <<"Error: ", e>>

NoRet == [r |-> None, code |-> "", attempt |-> "unset"]

SummarizeEntry(path, raised) ==
    [op |-> "summarize", path |-> path, summary |-> 0, question |-> <<>>,
     visualization |-> "", rationale |-> "", library |-> "",
     raised |-> raised, charts |-> <<>>]

VisualizeEntry(sm, goal, lib, raised, charts) ==
    [op |-> "visualize", path |-> 0, summary |-> sm,
     question |-> goal.question, visualization |-> goal.visualization,
     rationale |-> goal.rationale, library |-> lib,
     raised |-> raised, charts |-> charts]

\* can_generate
can_generate == uploaded # NoFile /\ strip(prompt) # <<>>

Init ==
    /\ uploaded = NoFile
    /\ prompt = <<>>
    /\ pc = "idle"
    /\ fs = {}
    /\ ntmp = 0
    /\ csv_path = 0
    /\ user_goal = <<>>
    /\ summary = 0
    /\ log = <<>>
    /\ ret = NoRet
    /\ ui = EmptyUI
    /\ created = 0
    /\ deleted = 0
    /\ d_in = None
    /\ d_out = None

\* a script run starts: the page and the run's locals are fresh
FreshRun ==
    /\ csv_path' = 0
    /\ user_goal' = <<>>
    /\ summary' = 0
    /\ log' = <<>>
    /\ ret' = NoRet
    /\ ui' = EmptyUI
    /\ created' = 0
    /\ deleted' = 0

\* the user picks or removes a file: the script reruns with gen_clicked False
Upload ==
    /\ pc = "idle"
    /\ \E f \in Files \cup {NoFile} : f # uploaded /\ uploaded' = f
    /\ FreshRun
    /\ UNCHANGED <<prompt, pc, fs, ntmp, d_in, d_out>>

\* the user edits the question: the script reruns with gen_clicked False
TypePrompt ==
    /\ pc = "idle"
    /\ \E p \in Prompts : p # prompt /\ prompt' = p
    /\ FreshRun
    /\ UNCHANGED <<uploaded, pc, fs, ntmp, d_in, d_out>>

\* variant: the button is never disabled
ClickGenerate_always_enabled ==
    /\ pc = "idle"
    /\ ntmp < MaxTmp
    /\ FreshRun
    /\ pc' = "load"
    /\ UNCHANGED <<uploaded, prompt, fs, ntmp, d_in, d_out>>

\* the button, enabled only when can_generate: the script reruns with
\* gen_clicked True
ClickGenerate ==
    /\ pc = "idle"
    /\ can_generate
    /\ ntmp < MaxTmp
    /\ FreshRun
    /\ pc' = "load"
    /\ UNCHANGED <<uploaded, prompt, fs, ntmp, d_in, d_out>>

\* variant: the except clause reports the no-image message
Caught_as_no_image(e) ==
    /\ ui' = [ui EXCEPT !.error = MsgNoImage]
    /\ pc' = "idle"

\* an exception reaches the except clause of the result block
Caught(e) ==
    /\ ui' = [ui EXCEPT !.error = MsgError(e)]
    /\ pc' = "idle"

\* result block: load df, the df.empty guard, preview, temp CSV
LoadDataset ==
    /\ pc = "load"
    /\ IF ~uploaded.parses
       THEN /\ Caught(IF uploaded.name = "csv" THEN "read_csv" ELSE "read_excel")
            /\ UNCHANGED <<fs, ntmp, csv_path, user_goal, created>>
       ELSE IF uploaded.rows = 0
       THEN /\ ui' = [ui EXCEPT !.error = MsgFileEmpty]
            /\ pc' = "idle"
            /\ UNCHANGED <<fs, ntmp, csv_path, user_goal, created>>
       ELSE /\ ui' = [ui EXCEPT !.preview = TRUE]
            /\ ntmp' = ntmp + 1
            /\ csv_path' = ntmp + 1
            /\ fs' = fs \cup {ntmp + 1}
            /\ created' = created + 1
            /\ user_goal' = prompt
            /\ pc' = "summarize1"
    /\ UNCHANGED <<uploaded, prompt, summary, log, ret, deleted, d_in, d_out>>

\* run_lida_once: summary = manager.summarize(csv_path)
Summarize ==
    /\ pc \in {"summarize1", "summarize2"}
    /\ \E raised \in BOOLEAN :
          /\ log' = Append(log, SummarizeEntry(csv_path, raised))
          /\ IF raised
             THEN /\ Caught("summarize")
                  /\ UNCHANGED summary
             ELSE /\ summary' = Len(log) + 1
                  /\ pc' = IF pc = "summarize1" THEN "visualize1" ELSE "visualize2"
                  /\ UNCHANGED ui
    /\ UNCHANGED <<uploaded, prompt, fs, ntmp, csv_path, user_goal, ret,
                   created, deleted, d_in, d_out>>

\* run_lida_once: what it returns for the list visualize gave
first_candidate(charts) ==
    IF charts = <<>> THEN [raster |-> None, code |-> ""]
    ELSE [raster |-> charts[1].raster, code |-> charts[1].code]

\* variant: run_lida goes on to the second attempt whatever the first gave
after_attempt1_always_fallback(c) ==
    /\ user_goal' = guided(prompt)
    /\ pc' = "summarize2"
    /\ UNCHANGED ret

\* run_lida: what follows the first run_lida_once
after_attempt1(c) ==
    IF c.raster # None
    THEN /\ ret' = [r |-> c.raster, code |-> c.code, attempt |-> "primary"]
         /\ pc' = "display"
         /\ UNCHANGED user_goal
    ELSE /\ user_goal' = guided(prompt)
         /\ pc' = "summarize2"
         /\ UNCHANGED ret

\* variant: run_lida tries a third time when the second attempt gave no image
after_attempt2_third_try(c) ==
    IF c.raster = None /\ Len(log) < 5
    THEN /\ pc' = "summarize2"
         /\ UNCHANGED <<user_goal, ret>>
    ELSE /\ ret' = [r |-> c.raster, code |-> c.code,
                    attempt |-> IF c.raster # None THEN "fallback" ELSE "none"]
         /\ pc' = "display"
         /\ UNCHANGED user_goal

\* run_lida: what follows the second run_lida_once
after_attempt2(c) ==
    /\ ret' = [r |-> c.raster, code |-> c.code,
               attempt |-> IF c.raster # None THEN "fallback" ELSE "none"]
    /\ pc' = "display"
    /\ UNCHANGED user_goal

\* run_lida_once: the goal and the manager.visualize call
Visualize ==
    /\ pc \in {"visualize1", "visualize2"}
    /\ LET goal == [question |-> user_goal,
                    visualization |-> GoalVisualization,
                    rationale |-> GoalRationale]
       IN  \/ /\ log' = Append(log, VisualizeEntry(summary, goal, Library, TRUE, <<>>))
              /\ Caught("visualize")
              /\ UNCHANGED <<user_goal, ret>>
           \/ \E charts \in ChartLists :
                 /\ log' = Append(log, VisualizeEntry(summary, goal, Library, FALSE, charts))
                 /\ IF pc = "visualize1"
                    THEN after_attempt1(first_candidate(charts))
                    ELSE after_attempt2(first_candidate(charts))
                 /\ UNCHANGED ui
    /\ UNCHANGED <<uploaded, prompt, fs, ntmp, csv_path, summary,
                   created, deleted, d_in, d_out>>

\* variant: the display branch tests raster instead of raster_bytes
show_tests_raster(raster_bytes, shown) ==
    IF ret.r # None
    THEN IF shown
         THEN ui' = [ui EXCEPT !.image = raster_bytes,
                               !.caption = ret.attempt,
                               !.code = IF ret.code = "" THEN "# No code returned"
                                        ELSE ret.code,
                               !.success = TRUE]
         ELSE ui' = [ui EXCEPT !.error = MsgError("image")]
    ELSE ui' = [ui EXCEPT !.error = MsgNoImage]

\* result block after run_lida returned: what is shown for raster_bytes
show(raster_bytes, shown) ==
    IF raster_bytes # None
    THEN IF shown
         THEN ui' = [ui EXCEPT !.image = raster_bytes,
                               !.caption = ret.attempt,
                               !.code = IF ret.code = "" THEN "# No code returned"
                                        ELSE ret.code,
                               !.success = TRUE]
         ELSE ui' = [ui EXCEPT !.error = MsgError("image")]
    ELSE ui' = [ui EXCEPT !.error = MsgNoImage]

\* result block after run_lida returned: unlink, decode_raster, display;
\* st.image either shows the bytes or raises
Display ==
    /\ pc = "display"
    /\ fs' = fs \ {csv_path}
    /\ deleted' = deleted + 1
    /\ \E shown \in BOOLEAN : show(decode_raster(ret.r), shown)
    /\ pc' = "idle"
    /\ UNCHANGED <<uploaded, prompt, ntmp, csv_path, user_goal, summary, log,
                   ret, created, d_in, d_out>>

Next ==
    \/ Upload
    \/ TypePrompt
    \/ ClickGenerate
    \/ LoadDataset
    \/ Summarize
    \/ Visualize
    \/ Display

Spec == Init /\ [][Next]_vars

\* the script run is synchronous: once started, each of its steps is taken
FairSpec == Spec /\ WF_vars(LoadDataset) /\ WF_vars(Summarize)
                 /\ WF_vars(Visualize) /\ WF_vars(Display)

-----------------------------------------------------------------------------
(* decode_raster on its own *)

Pending == [type |-> "pending", val |-> <<>>]

\* arguments of decode_raster: None, bytes, texts, another object
DecodeInputs ==
    {None, Other}
        \cup {Bytes(b) : b \in {<<>>, <<0>>, <<65>>, <<137, 80>>}}
        \cup {Str(t) : t \in TextsUpTo(MaxLen)}

DecodeInit ==
    /\ uploaded = NoFile
    /\ prompt = <<>>
    /\ pc = "idle"
    /\ fs = {}
    /\ ntmp = 0
    /\ csv_path = 0
    /\ user_goal = <<>>
    /\ summary = 0
    /\ log = <<>>
    /\ ret = NoRet
    /\ ui = EmptyUI
    /\ created = 0
    /\ deleted = 0
    /\ d_in \in DecodeInputs
    /\ d_out = Pending

DecodeCall ==
    /\ d_out = Pending
    /\ d_out' = decode_raster(d_in)
    /\ UNCHANGED <<uploaded, prompt, pc, fs, ntmp, csv_path, user_goal,
                   summary, log, ret, ui, created, deleted, d_in>>

DecodeNext == DecodeCall

DecodeSpec == DecodeInit /\ [][DecodeNext]_vars

-----------------------------------------------------------------------------
(* Reading the call log of a script run *)

VisCalls == {i \in DOMAIN log : log[i].op = "visualize"}
SumCalls == {i \in DOMAIN log : log[i].op = "summarize"}

\* index of the visualize call of attempt 1 / attempt 2 (0: not made)
Vis1 == IF VisCalls = {} THEN 0
        ELSE CHOOSE i \in VisCalls : \A j \in VisCalls : i <= j
Vis2 == IF Cardinality(VisCalls) < 2 THEN 0
        ELSE CHOOSE i \in VisCalls : \A j \in VisCalls : j <= i

\* a summarize or visualize call of this run raised
Raised == \E i \in DOMAIN log : log[i].raised

\* attempt 1 returned a first candidate with an image
Attempt1Image ==
    /\ Vis1 # 0
    /\ ~log[Vis1].raised
    /\ log[Vis1].charts # <<>>
    /\ log[Vis1].charts[1].raster # None

\* attempt 1 returned no candidate, or a first candidate without an image
Attempt1NoImage ==
    /\ Vis1 # 0
    /\ ~log[Vis1].raised
    /\ (log[Vis1].charts = <<>> \/ log[Vis1].charts[1].raster = None)

\* attempt 2 returned a first candidate with an image
Attempt2Image ==
    /\ Vis2 # 0
    /\ ~log[Vis2].raised
    /\ log[Vis2].charts # <<>>
    /\ log[Vis2].charts[1].raster # None

\* run_lida has returned to the result block
Returned == ret.attempt # "unset"

Outcomes == {"primary", "fallback", "none"}

-----------------------------------------------------------------------------
(* C1 *)

\* C1: once a generation request that created its temporary CSV has ended,
\* on any exit path, that file no longer exists, and the request created
\* exactly one such file and deleted exactly one.
ClaimC1_TempFileGone ==
    (pc = "idle" /\ created > 0) =>
        /\ csv_path \notin fs
        /\ created = 1
        /\ deleted = 1

-----------------------------------------------------------------------------
(* C2 *)

\* C2: a generation request never makes more than two visualize calls;
\* when run_lida returns it reports exactly one of primary, fallback, none;
\* and once started, it returns unless an external call raised.
C2_TerminatesInTwoAttempts ==
    /\ [](Cardinality(VisCalls) <= 2)
    /\ [](pc = "display" => /\ Returned
                            /\ ret.attempt \in Outcomes
                            /\ ~Raised
                            /\ Cardinality(VisCalls) \in 1..2)
    /\ (pc = "summarize1") ~> (pc = "display" \/ Raised)

C2_Witness ==
    /\ pc = "display"
    /\ ret.attempt = "fallback"
    /\ Cardinality(VisCalls) = 2

-----------------------------------------------------------------------------
(* C3 *)

\* C3: if attempt 1 returns a first candidate with a non-null image, the
\* request makes exactly one visualize and one summarize call and run_lida
\* returns primary with that candidate's image and code.
C3_PrimaryStops ==
    Attempt1Image =>
        /\ Cardinality(VisCalls) = 1
        /\ Cardinality(SumCalls) = 1
        /\ pc \in {"display", "idle"}
        /\ ret = [r |-> log[Vis1].charts[1].raster,
                  code |-> log[Vis1].charts[1].code,
                  attempt |-> "primary"]

C3_Witness ==
    /\ Attempt1Image
    /\ pc = "idle"
    /\ Len(log[Vis1].charts) = 2
    /\ log[Vis1].charts[1].code = "plt.bar()"

-----------------------------------------------------------------------------
(* C4 *)

\* C4: if attempt 1 completes without an image, attempt 2 is started, once
\* and after attempt 1, with the original question followed by the non-empty
\* guidance suffix; its visualize call has the same visualization,
\* rationale and library as attempt 1's.
C4_FallbackGoal ==
    Attempt1NoImage =>
        /\ log[Vis1].question = prompt
        /\ user_goal = log[Vis1].question \o GuidanceSuffix
        /\ GuidanceSuffix # <<>>
        /\ Len(user_goal) > Len(log[Vis1].question)
        /\ SubSeq(user_goal, 1, Len(log[Vis1].question)) = log[Vis1].question
        /\ Cardinality(VisCalls) <= 2
        /\ pc \in {"summarize2", "visualize2", "display", "idle"}
        /\ (pc = "summarize2" => Cardinality(SumCalls) = 1)
        /\ (pc = "visualize2" => Cardinality(SumCalls) = 2 /\ Vis2 = 0)
        /\ (pc \in {"display", "idle"} =>
                \/ Vis2 # 0
                \/ (Cardinality(SumCalls) = 2 /\ log[Len(log)].raised))
        /\ (Vis2 # 0 =>
                /\ Vis2 > Vis1
                /\ log[Vis2].question = user_goal
                /\ log[Vis2].visualization = log[Vis1].visualization
                /\ log[Vis2].rationale = log[Vis1].rationale
                /\ log[Vis2].library = log[Vis1].library)

C4_Witness ==
    /\ Attempt1NoImage
    /\ log[Vis1].charts # <<>>
    /\ Vis2 # 0
    /\ Attempt2Image
    /\ Len(prompt) = 3

-----------------------------------------------------------------------------
(* C5 *)

\* C5: the outcome follows the two attempts' images (primary / fallback /
\* none), and every failure outcome carries no image and no code.
ClaimC5_OutcomeAndEmptyFailure ==
    Returned =>
        /\ (ret.attempt = "primary" <=> Attempt1Image)
        /\ (ret.attempt = "fallback" <=> (Attempt1NoImage /\ Attempt2Image))
        /\ (ret.attempt = "none" <=>
                (Attempt1NoImage /\ Vis2 # 0 /\ ~Attempt2Image))
        /\ (ret.attempt = "none" => ret.r = None /\ ret.code = "")

-----------------------------------------------------------------------------
(* C6 *)

\* C6: an exception raised by summarize or visualize is the last call of
\* the run (no attempt follows it), run_lida does not return, the page
\* shows "Error: ..." naming it, which is not the no-image message, shows
\* no image and no success, and the page goes on taking input.
C6_ExceptionPropagates ==
    Raised =>
        /\ log[Len(log)].raised
        /\ \A i \in 1..(Len(log) - 1) : ~log[i].raised
        /\ pc = "idle"
        /\ ~Returned
        /\ ui.error = MsgError(log[Len(log)].op)
        /\ ui.error # MsgNoImage
        /\ ui.image = None
        /\ ~ui.success
        /\ ENABLED TypePrompt

C6_Witness ==
    /\ Raised
    /\ Len(log) = 2
    /\ log[2].op = "visualize"
    /\ pc = "idle"

-----------------------------------------------------------------------------
(* C7 *)

\* C7: decode_raster returns bytes unchanged, the decoded bytes of a
\* well-formed base64 text, absent for a text that is not well-formed
\* base64, and absent for None.
ClaimC7_DecodeContract ==
    d_out # Pending =>
        /\ (d_in.type = "bytes" => d_out = d_in)
        /\ (d_in.type = "str" /\ ValidBase64(d_in.val) =>
                d_out = Bytes(GroupDecode(d_in.val)))
        /\ (d_in.type = "str" /\ ~ValidBase64(d_in.val) => d_out = None)
        /\ (d_in = None => d_out = None)

-----------------------------------------------------------------------------
(* C8 *)

\* the page of a run that ended with the no-image message
NoImagePage == [EmptyUI EXCEPT !.preview = TRUE, !.error = MsgNoImage]

\* C8: when run_lida returns a payload that decode_raster cannot decode,
\* the page is the one shown when no image was produced: no image, no code,
\* no success, the same "could not generate an image" error.
C8_DecodeFailureLikeNoImage ==
    (pc = "idle" /\ Returned /\ decode_raster(ret.r) = None) =>
        ui = NoImagePage

C8_Witness ==
    /\ pc = "idle"
    /\ ret.attempt = "primary"
    /\ ret.r = Str(<<Chr.Q>>)
    /\ ui = NoImagePage

-----------------------------------------------------------------------------
(* C9 *)

\* the script run has reached run_lida or created its temporary file
Generating ==
    \/ pc \in {"summarize1", "visualize1", "summarize2", "visualize2", "display"}
    \/ log # <<>>
    \/ created > 0
    \/ csv_path # 0

\* C9: the script handles a click, and generation happens, only with a file
\* uploaded and a question non-empty after trimming; with a file that does
\* not parse or has zero rows nothing is generated and the page shows an
\* error.
C9_OnlyEligibleRequests ==
    /\ (pc # "idle" => uploaded # NoFile /\ strip(prompt) # <<>>)
    /\ (Generating =>
            /\ uploaded # NoFile
            /\ strip(prompt) # <<>>
            /\ uploaded.parses
            /\ uploaded.rows > 0)
    /\ (pc = "idle" /\ ui # EmptyUI /\ ~uploaded.parses =>
            /\ ui = [EmptyUI EXCEPT !.error =
                        MsgError(IF uploaded.name = "csv" THEN "read_csv"
                                 ELSE "read_excel")]
            /\ ~Generating)
    /\ (pc = "idle" /\ ui # EmptyUI /\ uploaded.parses /\ uploaded.rows = 0 =>
            /\ ui = [EmptyUI EXCEPT !.error = MsgFileEmpty]
            /\ ~Generating)

C9_Witness ==
    /\ pc = "idle"
    /\ uploaded.parses
    /\ uploaded.rows = 0
    /\ ui.error = MsgFileEmpty
    /\ ntmp = 1

-----------------------------------------------------------------------------
(* C10 *)

\* C10: a generation request calls summarize exactly once, before attempt
\* 1, and every visualize call of the request uses that summary.
ClaimC10_SummarizeOnce ==
    /\ Cardinality(SumCalls) <= 1
    /\ (VisCalls # {} => Cardinality(SumCalls) = 1)
    /\ \A i \in VisCalls : log[i].summary = 1

====
